---- MODULE Spec2Model ----
(***************************************************************************)
(* rockethook: a Webhook client that posts Message objects to a chat       *)
(* server (src/rockethook/__init__.py).                                    *)
(*                                                                         *)
(* Python strings are sequences of one-character strings; a fixed literal  *)
(* of the source that is never taken apart is a one-element sequence       *)
(* holding the literal.  Python values whose type can vary (None or str)   *)
(* are records tagged with their type in field t.                          *)
(***************************************************************************)
EXTENDS Integers, Sequences, FiniteSets, TLC

VARIABLES
    ctor,       \* the arguments Webhook.__init__ was called with
    hook,       \* the Webhook instance: attribute name -> value
    msg,        \* the caller's Message instance
    ctorText,   \* the text argument msg was constructed with
    appendLog,  \* the append_text calls made on msg, in order: <<text, delimiter>>
    attachLog,  \* the add_attachment calls made on msg, in order: kwargs
    last        \* the latest post / quick_post call and what it did

vars == <<ctor, hook, msg, ctorText, appendLog, attachLog, last>>

----------------------------------------------------------------------------
(* Bounds of the model. *)

MaxAppend == 2
MaxAttach == 2
MaxUrlLen == 4

----------------------------------------------------------------------------
(* Python values. *)

PyNone == [t |-> "NoneType"]
PyStr(s) == [t |-> "str", v |-> s]

\* bool(v) for None and str
Truthy(v) == IF v.t = "NoneType" THEN FALSE ELSE v.v # <<>>

RECURSIVE Find(_, _, _)
\* s.find(c, from): the first index >= from (1-based) holding c, or 0
Find(s, c, from) ==
    IF from > Len(s) THEN 0
    ELSE IF s[from] = c THEN from
    ELSE Find(s, c, from + 1)

\* s[a..b], empty when b < a
Slice(s, a, b) == IF b < a THEN <<>> ELSE SubSeq(s, a, b)

----------------------------------------------------------------------------
(* class Message *)

\* Message.__init__(text='', channel=None, icon_url=None)
MessageInit(text, channel, icon_url) ==
    [type |-> "Message", text |-> text, channel |-> channel,
     icon_url |-> icon_url, attachments |-> <<>>]

\* append_text without the test for an empty text: the delimiter always goes in
append_text_AlwaysDelimiter(self, text_to_append, delimiter) ==
    [self EXCEPT !.text = PyStr(self.text.v \o delimiter \o text_to_append)]

\* Message.append_text(text_to_append, delimiter='\n')
append_text(self, text_to_append, delimiter) ==
    IF Truthy(self.text)
    THEN [self EXCEPT !.text = PyStr(self.text.v \o delimiter \o text_to_append)]
    ELSE [self EXCEPT !.text = PyStr(text_to_append)]

\* add_attachment putting the new attachment first
add_attachment_Insert(self, kwargs) ==
    [self EXCEPT !.attachments = <<kwargs>> \o self.attachments]

\* Message.add_attachment(**kwargs)
add_attachment(self, kwargs) ==
    [self EXCEPT !.attachments = Append(self.attachments, kwargs)]

----------------------------------------------------------------------------
(* urllib.parse.urlparse, as called at line 49, on the characters below.   *)
(* The steps of urlsplit that act only on characters outside Chars         *)
(* (stripping leading control characters and spaces, removing tab / CR /   *)
(* LF, the bracketed IPv6 host checks, splitting ;params) leave a URL over *)
(* Chars as it is and are not modelled.                                    *)

LowerLetters ==
    <<"a","b","c","d","e","f","g","h","i","j","k","l","m",
      "n","o","p","q","r","s","t","u","v","w","x","y","z">>
UpperLetters ==
    <<"A","B","C","D","E","F","G","H","I","J","K","L","M",
      "N","O","P","Q","R","S","T","U","V","W","X","Y","Z">>
Range(f) == {f[i] : i \in DOMAIN f}
Digits == {"0","1","2","3","4","5","6","7","8","9"}

\* c.isascii() and c.isalpha()
IsAlpha(c) == c \in Range(LowerLetters) \cup Range(UpperLetters)

\* urllib.parse.scheme_chars
scheme_chars == Range(LowerLetters) \cup Range(UpperLetters) \cup Digits \cup {"+", "-", "."}

\* str.lower() on one character
LowerChar(c) ==
    IF c \in Range(UpperLetters)
    THEN LowerLetters[CHOOSE i \in DOMAIN UpperLetters : UpperLetters[i] = c]
    ELSE c

\* str.lower()
Lower(s) == [i \in DOMAIN s |-> LowerChar(s[i])]

\* the least positive number of a set of naturals in which 0 means "not found";
\* dflt when nothing was found
FirstFound(S, dflt) ==
    IF S \ {0} = {} THEN dflt
    ELSE CHOOSE n \in S \ {0} : \A m \in S \ {0} : n <= m

\* urlsplit: the scheme, and the rest of the URL after "scheme:"
SplitScheme(url) ==
    LET i == Find(url, ":", 1) IN
    IF i > 1 /\ IsAlpha(url[1]) /\ \A k \in 1..(i - 1) : url[k] \in scheme_chars
    THEN [scheme |-> Lower(Slice(url, 1, i - 1)), rest |-> Slice(url, i + 1, Len(url))]
    ELSE [scheme |-> <<>>, rest |-> url]

\* _splitnetloc(url, 2) when url starts with "//", else no netloc
SplitNetloc(url) ==
    IF Len(url) >= 2 /\ url[1] = "/" /\ url[2] = "/"
    THEN LET delim == FirstFound({Find(url, c, 3) : c \in {"/", "?", "#"}}, Len(url) + 1)
         IN  [netloc |-> Slice(url, 3, delim - 1), rest |-> Slice(url, delim, Len(url))]
    ELSE [netloc |-> <<>>, rest |-> url]

\* url.split(c, 1)[0] when c is in url, else url
CutAt(url, c) ==
    LET i == Find(url, c, 1) IN IF i = 0 THEN url ELSE Slice(url, 1, i - 1)

\* urlparse(url): scheme, netloc and path of the ParseResult
urlparse(url) ==
    LET a == SplitScheme(url)
        b == SplitNetloc(a.rest)
    IN  [scheme |-> a.scheme, netloc |-> b.netloc,
         path |-> CutAt(CutAt(b.rest, "#"), "?")]

\* path.split('/')[0]
FirstSegment(path) == CutAt(path, "/")

----------------------------------------------------------------------------
(* class Webhook *)

\* __init__ without the fallback to the first path segment
WebhookInit_NetlocOnly(server_url, token, send_msg_timeout_secs) ==
    LET parsed == urlparse(server_url) IN
    [scheme |-> parsed.scheme,
     server_fqdn |-> parsed.netloc,
     token |-> token,
     send_msg_timeout_secs |-> send_msg_timeout_secs]

\* Webhook.__init__(server_url, token, send_msg_timeout_secs=30): the instance's
\* attributes, by name
WebhookInit(server_url, token, send_msg_timeout_secs) ==
    LET parsed == urlparse(server_url) IN
    [scheme |-> parsed.scheme,
     server_fqdn |-> IF parsed.netloc # <<>> THEN parsed.netloc
                     ELSE FirstSegment(parsed.path),
     token |-> token,
     send_msg_timeout_secs |-> send_msg_timeout_secs]

\* the default of send_msg_timeout_secs
DefaultTimeoutSecs == 30

\* WebhookError.__init__(status, message): the exception object.  message is a
\* str here; str.format puts the status and the message into the fixed template.
WebhookError(status, message) ==
    [type |-> "WebhookError", status |-> status,
     message |-> <<"Rocket.Chat server error, code ", ToString(status), ": ">> \o message]

\* an exception of another class; status and message are unused
Raise(type) == [type |-> type, status |-> 0, message |-> <<>>]
NoException == Raise("none")

\* isinstance(exc, requests.Timeout): ConnectTimeout and ReadTimeout derive from it
IsTimeout(exc) == exc.type \in {"Timeout", "ConnectTimeout", "ReadTimeout"}

\* isinstance(exc, requests.ConnectionError): ConnectTimeout, SSLError and
\* ProxyError derive from it
IsConnectionError(exc) ==
    exc.type \in {"ConnectionError", "ConnectTimeout", "SSLError", "ProxyError"}

\* payload_dict with `is not None` tests in place of the truth tests
PayloadDict_NotNone(message) ==
    LET keys == {k \in {"text", "channel", "icon_url"} : message[k].t # "NoneType"}
                \cup {"attachments"}
    IN  [k \in keys |-> message[k]]

\* lines 71-79: payload_dict, a dict from key to the Message field's value
PayloadDict(message) ==
    LET keys == {k \in {"text", "channel", "icon_url"} : Truthy(message[k])}
                \cup (IF message.attachments # <<>> THEN {"attachments"} ELSE {})
    IN  [k \in keys |-> message[k]]

\* the attribute the argument list of requests.post reads at line 85
TimeoutAttr == "send_msg_timeout_sec"

\* the characters of a key looked up at lines 89-92
KeyChars(key) ==
    IF key = "error" THEN <<"e","r","r","o","r">> ELSE <<"m","e","s","s","a","g","e">>

\* sub in s for two str: sub occurs in s
Contains(s, sub) ==
    \E i \in 1..(Len(s) - Len(sub) + 1) : SubSeq(s, i, i + Len(sub) - 1) = sub

RECURSIVE ReprItems(_)
\* the items of str(list) for a list of str without quotes or escapes
ReprItems(items) ==
    IF items = <<>> THEN <<>>
    ELSE <<"'">> \o items[1] \o <<"'">>
         \o (IF Len(items) > 1 THEN <<",", " ">> ELSE <<>>) \o ReprItems(Tail(items))

\* key in data (lines 89, 91) for a parsed body that is a dict (keys to str), a
\* list of str or a str: a key of the dict, an item of the list, a substring of
\* the str
InData(key, data) ==
    IF data.t = "dict" THEN key \in DOMAIN data.v
    ELSE IF data.t = "list" THEN \E i \in DOMAIN data.v : data.v[i] = KeyChars(key)
    ELSE Contains(data.v, KeyChars(key))

\* '{1}'.format(..., data) for the whole parsed body (line 94 into line 21); str()
\* of a dict is kept as one literal
StrOfData(data) ==
    IF data.t = "str" THEN data.v
    ELSE IF data.t = "list" THEN <<"[">> \o ReprItems(data.v) \o <<"]">>
    ELSE <<"str(data)">>

\* lines 88-95 for a status other than 200: the exception raised.  A JSON number,
\* true, false or null does not support `in`; a list or a str does, but not
\* data["error"] / data["message"].
ErrMsg(status_code, data) ==
    IF data.t \notin {"dict", "list", "str"} THEN Raise("TypeError")
    ELSE IF InData("error", data)
    THEN IF data.t = "dict" THEN WebhookError(status_code, data.v["error"])
         ELSE Raise("TypeError")
    ELSE IF InData("message", data)
    THEN IF data.t = "dict" THEN WebhookError(status_code, data.v["message"])
         ELSE Raise("TypeError")
    ELSE WebhookError(status_code, StrOfData(data))

DigitSeq == <<"0","1","2","3","4","5","6","7","8","9">>

RECURSIVE PortValue(_)
\* int(port) for a str of digits
PortValue(port) ==
    IF port = <<>> THEN 0
    ELSE 10 * PortValue(SubSeq(port, 1, Len(port) - 1))
         + (CHOOSE d \in 0..9 : DigitSeq[d + 1] = port[Len(port)])

\* requests can prepare "scheme://authority/hooks/token" (PreparedRequest.prepare_url,
\* through urllib3's parse_url), for an authority of letters, digits, ".", "*" and
\* ":": the host before the first ":" is not empty and does not start with "." or
\* "*", and what follows that ":" is a port: digits only, any number of leading
\* zeros, and at most 65535
ValidAuthority(authority) ==
    LET i == Find(authority, ":", 1)
        host == IF i = 0 THEN authority ELSE Slice(authority, 1, i - 1)
        port == IF i = 0 THEN <<>> ELSE Slice(authority, i + 1, Len(authority))
    IN  /\ host # <<>>
        /\ host[1] \notin {".", "*"}
        /\ \A k \in DOMAIN port : port[k] \in Digits
        /\ (\A k \in DOMAIN port : port[k] \in Digits) => PortValue(port) <= 65535

\* the exception requests.post raises before it connects, or none, for a scheme
\* as urlparse gives it (lower case; letters, digits, "+", "-", "."): a URL that
\* does not start with "http" is left unparsed and finds no connection adapter
\* (InvalidSchema); one that does is parsed: urllib3 reads no scheme when it
\* holds a "." (MissingSchema), the authority must be valid (InvalidURL), and
\* only http and https have a connection adapter (InvalidSchema)
RefusedUrl(scheme, authority) ==
    LET http == <<"h","t","t","p">> IN
    IF ~(Len(scheme) >= 4 /\ SubSeq(scheme, 1, 4) = http) THEN Raise("InvalidSchema")
    ELSE IF \E k \in DOMAIN scheme : scheme[k] = "." THEN Raise("MissingSchema")
    ELSE IF ~ValidAuthority(authority) THEN Raise("InvalidURL")
    ELSE IF scheme \notin {http, http \o <<"s">>} THEN Raise("InvalidSchema")
    ELSE NoException

\* lines 85-95, the body of the try block: the exception it raises (or none) and
\* the HTTP requests it issued.  env is what the network and the server do when a
\* request is made.
TryBody(self, payload_dict, env) ==
    IF TimeoutAttr \notin DOMAIN self
    THEN \* evaluating the arguments of requests.post fails: no call is made
         [exc |-> Raise("AttributeError"), sent |-> <<>>]
    ELSE
    LET request == [scheme |-> self.scheme, host |-> self.server_fqdn,
                    path |-> <<"/hooks/">> \o self.token,
                    data |-> payload_dict, timeout |-> self[TimeoutAttr]]
        refused == RefusedUrl(self.scheme, self.server_fqdn)
    IN  IF refused # NoException
        THEN [exc |-> refused, sent |-> <<>>]
        ELSE IF env.kind # "response"
        THEN [exc |-> Raise(env.kind), sent |-> <<request>>]
        ELSE IF ~env.json
        THEN \* response.json() raises on a body that is not JSON
             [exc |-> Raise("JSONDecodeError"), sent |-> <<request>>]
        ELSE IF env.status_code = 200
        THEN [exc |-> NoException, sent |-> <<request>>]
        ELSE [exc |-> ErrMsg(env.status_code, env.data), sent |-> <<request>>]

\* lines 96-101, the except clauses, in order; the bare except catches every
\* exception, the WebhookError raised at line 95 included
Handlers(exc) ==
    IF exc.type = "none" THEN NoException
    ELSE IF IsTimeout(exc)
    THEN WebhookError(-1, <<"Timeout while sending Rocket message">>)
    ELSE IF IsConnectionError(exc)
    THEN WebhookError(-1, <<"Unable to connect to Rocket API">>)
    ELSE WebhookError(-1, <<"Unknown exception while sending Rocket message: ",
                            "Traceback ", exc.type>>)

\* isinstance(message, Message): instances of subclasses pass
IsMessage_Isinstance(message) == message.type \in {"Message", "MessageSubclass"}

\* type(message) is Message, line 69
IsMessage(message) == message.type = "Message"

\* Webhook.post(message): the exception that reaches the caller (or none), the
\* HTTP requests issued, and payload_dict once it was built
post(self, message, env) ==
    IF ~IsMessage(message)
    THEN [exc |-> Raise("AssertionError"), sent |-> <<>>, built |-> FALSE, payload |-> <<>>]
    ELSE IF "text" \notin DOMAIN message
    THEN \* message.text at line 72 on an object that has no such attribute
         [exc |-> Raise("AttributeError"), sent |-> <<>>, built |-> FALSE, payload |-> <<>>]
    ELSE LET payload_dict == PayloadDict(message)
             r == TryBody(self, payload_dict, env)
         IN  [exc |-> Handlers(r.exc), sent |-> r.sent, built |-> TRUE,
              payload |-> payload_dict]

\* Webhook.quick_post(text)
quick_post(self, text, env) == post(self, MessageInit(text, PyNone, PyNone), env)

----------------------------------------------------------------------------
(* The callers' inputs. *)

\* "https://chat.example.com/extra/path"
UrlWithPath ==
    <<"h","t","t","p","s",":","/","/","c","h","a","t",".","e","x","a","m","p","l","e",
      ".","c","o","m","/","e","x","t","r","a","/","p","a","t","h">>
\* "chat.example.com"
UrlBareHost ==
    <<"c","h","a","t",".","e","x","a","m","p","l","e",".","c","o","m">>

\* the characters of the enumerated server URLs
Chars == {"h", "H", "8", ":", "/", "?"}

\* every string over Chars of length at most n
Strings(n) == UNION {[1..k -> Chars] : k \in 0..n}

Tokens == {<<"t","0","k">>}
Timeouts == {DefaultTimeoutSecs, 5}

CtorTexts == {<<>>, <<"h","i">>}
Channels == {PyNone, PyStr(<<>>), PyStr(<<"#","c">>)}
IconUrls == {PyNone, PyStr(<<"u">>)}
TextArgs == {<<>>, <<"a">>, <<"b">>}
Delimiters == {<<"\n">>, <<",">>}
Attachments == {[title |-> "Attach"], [text |-> "body", color |-> "red"]}
QuickTexts == {<<>>, <<"H","i","!">>}

\* arguments of post that are not Message instances: a str, None, and an
\* instance of a subclass of Message
NonMessages ==
    {[type |-> "str"], [type |-> "NoneType"],
     [MessageInit(PyStr(<<"h","i">>), PyNone, PyNone) EXCEPT !.type = "MessageSubclass"]}

NoData == [t |-> "none", v |-> <<>>]
JsonDict(d) == [t |-> "dict", v |-> d]
JsonList(items) == [t |-> "list", v |-> items]
JsonStr(chars) == [t |-> "str", v |-> chars]
JsonNull == [t |-> "null", v |-> <<>>]
Response(status_code, json, data) ==
    [kind |-> "response", status_code |-> status_code, json |-> json, data |-> data]

\* what the network and the server do when a request is made
Envs ==
    {[kind |-> "ReadTimeout"], [kind |-> "ConnectTimeout"], [kind |-> "ConnectionError"],
     [kind |-> "SSLError"],
     Response(200, TRUE, JsonDict([success |-> <<"true">>])),
     Response(200, FALSE, NoData),
     Response(403, TRUE, JsonDict([error |-> <<"invalid token">>])),
     Response(403, TRUE, JsonDict([error |-> <<"invalid token">>, message |-> <<"denied">>])),
     Response(404, TRUE, JsonDict([message |-> <<"no such hook">>])),
     Response(400, TRUE, JsonDict([detail |-> <<"bad">>])),
     Response(403, TRUE, JsonList(<<>>)),
     Response(403, TRUE, JsonList(<<KeyChars("error")>>)),
     Response(502, TRUE, JsonStr(<<"b","a","d">>)),
     Response(502, TRUE, JsonNull),
     Response(500, FALSE, NoData)}

\* two of them, for the calls whose subject is not the network
SomeEnvs == {[kind |-> "ReadTimeout"], Response(200, TRUE, JsonDict([success |-> <<"true">>]))}

----------------------------------------------------------------------------
(* The state machine: one caller holding one Webhook and one Message. *)

NoCall == [op |-> "none"]

Call(op, arg, env, r) ==
    [op |-> op, arg |-> arg, env |-> env, exc |-> r.exc, sent |-> r.sent,
     built |-> r.built, payload |-> r.payload]

Start(urls, tokens, timeouts, texts, channels, icons) ==
    /\ ctor \in [server_url : urls, token : tokens, timeout : timeouts]
    /\ hook = WebhookInit(ctor.server_url, ctor.token, ctor.timeout)
    /\ ctorText \in texts
    /\ \E channel \in channels, icon_url \in icons :
           msg = MessageInit(PyStr(ctorText), channel, icon_url)
    /\ appendLog = <<>>
    /\ attachLog = <<>>
    /\ last = NoCall

\* msg.append_text(text) / msg.append_text(text, delimiter)
AppendText ==
    /\ Len(appendLog) < MaxAppend
    /\ \E text \in TextArgs, delimiter \in Delimiters :
           /\ msg' = append_text(msg, text, delimiter)
           /\ appendLog' = Append(appendLog, <<text, delimiter>>)
    /\ UNCHANGED <<ctor, hook, ctorText, attachLog, last>>

\* msg.add_attachment(**kwargs)
AddAttachment ==
    /\ Len(attachLog) < MaxAttach
    /\ \E kwargs \in Attachments :
           /\ msg' = add_attachment(msg, kwargs)
           /\ attachLog' = Append(attachLog, kwargs)
    /\ UNCHANGED <<ctor, hook, ctorText, appendLog, last>>

\* hook.post(msg), the network behaving as one of envs
PostTo(envs) ==
    /\ \E env \in envs : last' = Call("post", msg, env, post(hook, msg, env))
    /\ UNCHANGED <<ctor, hook, msg, ctorText, appendLog, attachLog>>

\* hook.post(x) for an x that is not a Message
PostNonMessage ==
    /\ \E x \in NonMessages, env \in SomeEnvs :
           last' = Call("post", x, env, post(hook, x, env))
    /\ UNCHANGED <<ctor, hook, msg, ctorText, appendLog, attachLog>>

\* hook.quick_post(text)
QuickPostTo(texts, envs) ==
    /\ \E text \in texts, env \in envs :
           last' = Call("quick_post", MessageInit(PyStr(text), PyNone, PyNone), env,
                        quick_post(hook, PyStr(text), env))
    /\ UNCHANGED <<ctor, hook, msg, ctorText, appendLog, attachLog>>

\* Posting: Messages of every shape, posted under every behaviour of the network
Init == Start({UrlWithPath, UrlBareHost}, Tokens, {DefaultTimeoutSecs},
              CtorTexts, Channels, IconUrls)

Post == PostTo(Envs)
QuickPost == QuickPostTo(QuickTexts, Envs)

Next == AddAttachment \/ Post \/ PostNonMessage \/ QuickPost

Spec == Init /\ [][Next]_vars

\* Building: a Message built up by its mutators, posted now and then
InitMsg == Start({UrlWithPath}, Tokens, {DefaultTimeoutSecs}, CtorTexts, {PyNone}, {PyNone})

PostBuilt == PostTo(SomeEnvs)

NextMsg == AppendText \/ AddAttachment \/ PostBuilt

SpecMsg == InitMsg /\ [][NextMsg]_vars

\* Construction: Webhooks built from every short server URL, each used for posting
InitUrl == Start(Strings(MaxUrlLen) \cup {UrlWithPath, UrlBareHost}, Tokens, Timeouts,
                 {<<"h","i">>}, {PyNone}, {PyNone})

PostUrl == PostTo(SomeEnvs)
QuickPostUrl == QuickPostTo({<<"H","i","!">>}, SomeEnvs)

NextUrl == PostUrl \/ QuickPostUrl

SpecUrl == InitUrl /\ [][NextUrl]_vars

----------------------------------------------------------------------------
(* What the claims speak of. *)

\* the latest call was post or quick_post on a Message
PostedMessage == last.op \in {"post", "quick_post"} /\ last.arg.type = "Message"

\* a WebhookError reached the caller of the latest call
FailedWith(status, message) ==
    /\ last.exc.type = "WebhookError"
    /\ last.exc.status = status
    /\ last.exc.message =
           <<"Rocket.Chat server error, code ", ToString(status), ": ">> \o message

\* the server's answer in the latest call is a status other than 200
AnsweredError == last.env.kind = "response" /\ last.env.status_code # 200

\* the error description of a JSON object: its `error`, else its `message`, else
\* the whole object
Description(d) ==
    IF "error" \in DOMAIN d THEN d["error"]
    ELSE IF "message" \in DOMAIN d THEN d["message"]
    ELSE <<"str(data)">>

\* the longest prefix of s holding no character of stops
UpTo(s, stops) ==
    LET at == {k \in 1..Len(s) : s[k] \in stops} IN
    IF at = {} THEN s
    ELSE SubSeq(s, 1, (CHOOSE k \in at : \A j \in at : k <= j) - 1)

\* s reads as a URL scheme: a letter, then letters, digits, "+", "-", "."
IsSchemeText(s) ==
    /\ s # <<>>
    /\ s[1] \in Range(LowerLetters) \cup Range(UpperLetters)
    /\ \A k \in 1..Len(s) :
           s[k] \in Range(LowerLetters) \cup Range(UpperLetters) \cup Digits \cup {"+", "-", "."}

\* url starts with a scheme followed by ":" ending before position i
SchemeEndsAt(url, i) == i \in 2..Len(url) /\ url[i] = ":" /\ IsSchemeText(SubSeq(url, 1, i - 1))

StartsWithSlashes(s) == Len(s) >= 2 /\ s[1] = "/" /\ s[2] = "/"

RECURSIVE JoinCalls(_)
\* the arguments of a sequence of append_text calls, each but the first preceded
\* by the delimiter of its call
JoinCalls(calls) ==
    IF calls = <<>> THEN <<>>
    ELSE IF Len(calls) = 1 THEN calls[1][1]
    ELSE JoinCalls(SubSeq(calls, 1, Len(calls) - 1))
             \o calls[Len(calls)][2] \o calls[Len(calls)][1]

RECURSIVE DropLeadingEmpty(_)
\* calls without the leading calls whose argument is the empty string
DropLeadingEmpty(calls) ==
    IF calls = <<>> THEN <<>>
    ELSE IF calls[1][1] = <<>> THEN DropLeadingEmpty(Tail(calls))
    ELSE calls

----------------------------------------------------------------------------
(* The claims. *)

\* C1: when the server answers the POST with HTTP status 200, post on a Message
\* returns normally, whatever Webhook the constructor built.
C1_Returns_On_200 ==
    (PostedMessage /\ last.env.kind = "response" /\ last.env.status_code = 200)
        => last.exc.type = "none"

\* C2: when the server answers with a status S other than 200 and a JSON object,
\* post fails with WebhookError(S, description), the description being the
\* object's `error`, else its `message`, else the whole object.
C2_Status_And_Description ==
    (PostedMessage /\ AnsweredError /\ last.env.json /\ last.env.data.t = "dict")
        => FailedWith(last.env.status_code, Description(last.env.data.v))

\* C3: when the server answers with a status S other than 200 and a body that is
\* not JSON, post fails with WebhookError(S, the fixed "not a valid API response"
\* message).
C3_Status_On_NonJson ==
    (PostedMessage /\ AnsweredError /\ ~last.env.json)
        => FailedWith(last.env.status_code,
                      <<"not a valid API response / check your token">>)

\* C4: when the HTTP call times out, post fails with WebhookError(-1, the fixed
\* timeout message); when the host cannot be reached, with WebhookError(-1, the
\* fixed "unable to connect" message).
C4_Transport_Messages ==
    /\ (PostedMessage /\ last.env.kind \in {"ReadTimeout", "ConnectTimeout"})
           => FailedWith(-1, <<"Timeout while sending Rocket message">>)
    /\ (PostedMessage /\ last.env.kind \in {"ConnectionError", "SSLError"})
           => FailedWith(-1, <<"Unable to connect to Rocket API">>)

\* C5: post called with an argument that is not a Message instance fails with an
\* AssertionError, which is no WebhookError, and issues no HTTP request.
C5_NonMessage_Asserts ==
    (last.op = "post" /\ last.arg.type # "Message")
        => /\ last.exc.type = "AssertionError"
           /\ last.exc.type # "WebhookError"
           /\ last.sent = <<>>
           /\ ~last.built

\* C5 witness: post was called with an instance of a subclass of Message, and with
\* a str, and the assertion failed.
C5_Witness ==
    /\ last.op = "post"
    /\ last.arg.type \in {"MessageSubclass", "str"}
    /\ last.exc.type = "AssertionError"
    /\ last.env.kind = "response"

\* C6: the payload object post builds holds key text / channel / icon_url /
\* attachments if and only if that field of the Message is non-empty and not
\* None, each key carrying the field's value, and no other key; a Message with
\* only text "hi" gives exactly the key text.
C6_Payload_Keys ==
    (PostedMessage /\ last.built) =>
        LET m == last.arg
            p == last.payload
            set(v) == v.t = "str" /\ Len(v.v) > 0
        IN  /\ DOMAIN p \subseteq {"text", "channel", "icon_url", "attachments"}
            /\ \A k \in {"text", "channel", "icon_url"} :
                   /\ (k \in DOMAIN p) <=> set(m[k])
                   /\ (k \in DOMAIN p) => p[k] = m[k]
            /\ ("attachments" \in DOMAIN p) <=> Len(m.attachments) > 0
            /\ ("attachments" \in DOMAIN p) => p["attachments"] = m.attachments
            /\ (/\ m.text = PyStr(<<"h","i">>) /\ m.channel = PyNone
                /\ m.icon_url = PyNone /\ m.attachments = <<>>)
                   => DOMAIN p = {"text"}

\* C6 witness: a Message with text "hi", an empty channel string, no icon, and two
\* attachments was posted, and the payload has the keys text and attachments.
C6_Witness ==
    /\ last.op = "post" /\ last.built
    /\ last.arg.text = PyStr(<<"h","i">>)
    /\ last.arg.channel = PyStr(<<>>)
    /\ last.arg.icon_url = PyNone
    /\ Len(last.arg.attachments) = 2
    /\ DOMAIN last.payload = {"text", "attachments"}

\* C7 as stated: on a Message constructed with empty text, the text after any
\* sequence of append_text calls is the calls' arguments joined by the delimiters
\* of the calls, empty-string arguments included.
C7_Join_Of_All_Arguments ==
    ctorText = <<>> => (msg.text.t = "str" /\ msg.text.v = JoinCalls(appendLog))

\* C7 amended: on a Message constructed with empty text, the text after any
\* sequence of append_text calls is the join of the calls that follow the leading
\* empty-string arguments: a call made while the text is still empty adds no
\* delimiter, so a leading empty-string argument leaves no trace.
C7_Join_After_Leading_Empty ==
    ctorText = <<>> =>
        (msg.text.t = "str" /\ msg.text.v = JoinCalls(DropLeadingEmpty(appendLog)))

\* C7 witness: append_text("") came first, then append_text("a"); the text is "a",
\* with no delimiter before it.
C7_Witness ==
    /\ ctorText = <<>>
    /\ Len(appendLog) = 2
    /\ appendLog[1][1] = <<>>
    /\ appendLog[2][1] = <<"a">>
    /\ msg.text.v = <<"a">>

\* C8: the attachments of the Message are the kwargs of the add_attachment calls
\* made on it, in call order, one per call, whatever append_text and post calls
\* came in between; and post leaves the Message it is given as it is.
C8_Attachments_In_Call_Order ==
    /\ msg.attachments = attachLog
    /\ Len(msg.attachments) = Len(attachLog)
    /\ (last.op = "post" /\ last.arg.type = "Message") =>
           /\ Len(last.arg.attachments) <= Len(msg.attachments)
           /\ last.arg.attachments = SubSeq(msg.attachments, 1, Len(last.arg.attachments))

\* C8 witness: two different attachments were added with a post between them and
\* an append_text call made as well.
C8_Witness ==
    /\ Len(attachLog) = 2
    /\ attachLog[1] # attachLog[2]
    /\ msg.attachments = <<attachLog[1], attachLog[2]>>
    /\ last.op = "post"
    /\ Len(last.arg.attachments) = 1
    /\ Len(appendLog) >= 1

\* C9: for a server URL "scheme://authority[/path]" the Webhook holds that scheme
\* (in lower case, as urlparse gives it) and host = authority, the path dropped;
\* for a server URL without a scheme and without "//" it holds an empty scheme and
\* host = the text before the first "/" (or "?", "#"); token and timeout are the
\* constructor's arguments; and all this stays so after every post / quick_post.
C9_Parsed_Url_Kept ==
    LET url == ctor.server_url IN
    /\ DOMAIN hook = {"scheme", "server_fqdn", "token", "send_msg_timeout_secs"}
    /\ hook.token = ctor.token
    /\ hook.send_msg_timeout_secs = ctor.timeout
    /\ \A i \in 1..Len(url) :
           LET rest == SubSeq(url, i + 1, Len(url))
               authority == UpTo(SubSeq(rest, 3, Len(rest)), {"/", "?", "#"})
           IN  (SchemeEndsAt(url, i) /\ StartsWithSlashes(rest) /\ authority # <<>>) =>
                   /\ hook.scheme = [k \in 1..(i - 1) |-> LowerChar(url[k])]
                   /\ hook.server_fqdn = authority
    /\ ((\A i \in 1..Len(url) : ~SchemeEndsAt(url, i)) /\ ~StartsWithSlashes(url)) =>
           /\ hook.scheme = <<>>
           /\ hook.server_fqdn = UpTo(url, {"/", "?", "#"})
    /\ url = UrlWithPath =>
           /\ hook.scheme = <<"h","t","t","p","s">>
           /\ hook.server_fqdn = UrlBareHost
    /\ url = UrlBareHost => (hook.scheme = <<>> /\ hook.server_fqdn = UrlBareHost)

\* C9 witness: a Webhook built from "https://chat.example.com/extra/path" holds
\* scheme https and host chat.example.com after a quick_post.
C9_Witness ==
    /\ ctor.server_url = UrlWithPath
    /\ hook.scheme = <<"h","t","t","p","s">>
    /\ hook.server_fqdn = UrlBareHost
    /\ ctor.timeout = DefaultTimeoutSecs
    /\ last.op = "quick_post"

\* C10: every post / quick_post on a Message issues at most one HTTP request and
\* either returns or raises one WebhookError, whose status is -1 exactly when the
\* failure is on the client side (timeout, connection failure, unexpected
\* exception) and is the server's HTTP status whenever the server answered with a
\* status other than 200.
C10_One_Outcome ==
    PostedMessage =>
        /\ Len(last.sent) <= 1
        /\ last.exc.type \in {"none", "WebhookError"}
        /\ (last.exc.type = "WebhookError" /\ last.env.kind # "response")
               => last.exc.status = -1
        /\ AnsweredError =>
               (last.exc.type = "WebhookError" /\ last.exc.status = last.env.status_code)

====
